---------------------------- MODULE Spec2Model ----------------------------
(***************************************************************************)
(* A model of the class-hierarchy promotion engine of promo_processor:     *)
(* PromoProcessor (processor.py), its four registered strategies           *)
(* (processors/*.py) and the entry point (main.py).                        *)
(*                                                                         *)
(* Text is a sequence of one-character strings, so that the regular        *)
(* expressions of the catalog are matched character by character.  A       *)
(* Python number is an integer count of 1/10000 (exact decimal arithmetic; *)
(* binary floating-point representation error is not modelled), a Python   *)
(* dict is a function from its keys to tagged values.                      *)
(***************************************************************************)
EXTENDS Integers, Sequences, FiniteSets, TLC

\* ------------------------------------------------------------------ text

DigitVal ==
    ("0" :> 0) @@ ("1" :> 1) @@ ("2" :> 2) @@ ("3" :> 3) @@ ("4" :> 4) @@
    ("5" :> 5) @@ ("6" :> 6) @@ ("7" :> 7) @@ ("8" :> 8) @@ ("9" :> 9)

\* \d of the patterns
IsDigit(c) == c \in DOMAIN DigitVal

\* str.casefold() on the letters the model's texts use
FoldMap ==
    ("A" :> "a") @@ ("B" :> "b") @@ ("C" :> "c") @@ ("D" :> "d") @@
    ("E" :> "e") @@ ("F" :> "f") @@ ("G" :> "g") @@ ("H" :> "h") @@
    ("I" :> "i") @@ ("J" :> "j") @@ ("K" :> "k") @@ ("L" :> "l") @@
    ("M" :> "m") @@ ("N" :> "n") @@ ("O" :> "o") @@ ("P" :> "p") @@
    ("Q" :> "q") @@ ("R" :> "r") @@ ("S" :> "s") @@ ("T" :> "t") @@
    ("U" :> "u") @@ ("V" :> "v") @@ ("W" :> "w") @@ ("X" :> "x") @@
    ("Y" :> "y") @@ ("Z" :> "z")

casefold(s) ==
    [i \in 1..Len(s) |-> IF s[i] \in DOMAIN FoldMap THEN FoldMap[s[i]] ELSE s[i]]

\* Python's `sub in text` on strings
Contains(text, sub) ==
    \E i \in 1..(Len(text) - Len(sub) + 1) : SubSeq(text, i, i + Len(sub) - 1) = sub

\* ---------------------------------------------------------------- numbers

\* round(x, 2): the number of decimal places every strategy rounds to
Places == 2

Cent == 10 ^ Places

\* one unit of the model's numbers is 1/Scale
Scale == Cent * Cent

Abs(x) == IF x < 0 THEN -x ELSE x

\* round(n / d, 2) for d > 0, in units of 1/Scale: the nearest multiple of
\* Cent, a tie going to the even hundredth
RoundRatio(n, d) ==
    LET den == d * Cent
        a   == Abs(n)
        q   == a \div den
        r   == a % den
        up  == (2 * r > den) \/ (2 * r = den /\ q % 2 = 1)
        m   == (IF up THEN q + 1 ELSE q) * Cent
    IN  IF n < 0 THEN -m ELSE m

Round2(x) == RoundRatio(x, 1)

RECURSIVE DigitsValue(_)
\* the value of a run of decimal digits
DigitsValue(ds) ==
    IF ds = <<>> THEN 0
    ELSE 10 * DigitsValue(SubSeq(ds, 1, Len(ds) - 1)) + DigitVal[ds[Len(ds)]]

AllDigits(ds) == ds # <<>> /\ \A i \in 1..Len(ds) : IsDigit(ds[i])

\* int(group) for a group matched by \d+
IntOf(ds) == DigitsValue(ds)

DotAt(s) == IF \E i \in 1..Len(s) : s[i] = "." THEN CHOOSE i \in 1..Len(s) : s[i] = "." ELSE 0

\* the decimal literals float() accepts among the model's texts: digits with an
\* optional fraction of at most four digits
IsFloatText(s) ==
    LET p == DotAt(s)
    IN  IF p = 0 THEN AllDigits(s)
        ELSE /\ AllDigits(SubSeq(s, 1, p - 1))
             /\ Len(s) - p <= 2 * Places
             /\ \A i \in (p + 1)..Len(s) : IsDigit(s[i])

\* float(text) in units of 1/Scale, for IsFloatText(text)
FloatOf(s) ==
    LET p    == DotAt(s)
        ip   == IF p = 0 THEN s ELSE SubSeq(s, 1, p - 1)
        fr   == IF p = 0 THEN <<>> ELSE SubSeq(s, p + 1, Len(s))
    IN  DigitsValue(ip) * Scale + DigitsValue(fr) * (10 ^ (2 * Places - Len(fr)))

\* ------------------------------------------------------- regular expressions
\* A position of 0 is a failed match; every step passes a failure on.

\* a literal run of characters at position i
Lit(s, i, lit) ==
    IF i = 0 \/ i + Len(lit) - 1 > Len(s) THEN 0
    ELSE IF SubSeq(s, i, i + Len(lit) - 1) = lit THEN i + Len(lit) ELSE 0

\* an optional literal: x?
OptLit(s, i, lit) ==
    IF i = 0 THEN 0 ELSE IF Lit(s, i, lit) # 0 THEN Lit(s, i, lit) ELSE i

RECURSIVE RunEnd(_, _, _)
\* the position after the longest run from i of characters in class cls
RunEnd(s, i, cls) ==
    IF i <= Len(s) /\ s[i] \in cls THEN RunEnd(s, i + 1, cls) ELSE i

\* \d of the patterns
DigitChars == DOMAIN DigitVal

\* \s of the patterns
SpaceChars == {" ", "\t", "\n"}

\* \d+ (greedy; what follows it in every pattern is no digit)
Digits1(s, i) ==
    IF i = 0 THEN 0 ELSE IF RunEnd(s, i, DigitChars) > i THEN RunEnd(s, i, DigitChars) ELSE 0

\* \s+
Spaces1(s, i) ==
    IF i = 0 THEN 0 ELSE IF RunEnd(s, i, SpaceChars) > i THEN RunEnd(s, i, SpaceChars) ELSE 0

\* (?:\.\d+)? : taken when a dot and a digit follow
OptFraction(s, i) ==
    IF i = 0 THEN 0
    ELSE IF Digits1(s, Lit(s, i, <<".">>)) # 0 THEN Digits1(s, Lit(s, i, <<".">>)) ELSE i

\* (?:\.\d{2})? : taken when a dot and two digits follow
OptFraction2(s, i) ==
    IF i = 0 THEN 0
    ELSE IF /\ Lit(s, i, <<".">>) # 0
            /\ i + 2 <= Len(s)
            /\ IsDigit(s[i + 1])
            /\ IsDigit(s[i + 2])
         THEN i + 3
         ELSE i

Group(s, from, to) == SubSeq(s, from, to - 1)

NoGroups == [g \in {} |-> <<>>]

NoMatch == [ok |-> FALSE, groups |-> NoGroups]

Matched(groups) == [ok |-> TRUE, groups |-> groups]


L_Buy  == <<"B", "u", "y">>
L_Get  == <<"G", "e", "t">>
L_get  == <<"g", "e", "t">>
L_Free == <<"F", "r", "e", "e">>
L_off  == <<"o", "f", "f">>
L_lb   == <<"/", "l", "b">>
L_Save == <<"S", "a", "v", "e">>

\* r"Buy\s+(?P<quantity>\d+),?\s+Get\s+(?P<free>\d+)\s+Free" at position i
MatchBuyGetFree(s, i) ==
    LET q0 == Spaces1(s, Lit(s, i, L_Buy))
        q1 == Digits1(s, q0)
        f0 == Spaces1(s, Lit(s, Spaces1(s, OptLit(s, q1, <<",">>)), L_Get))
        f1 == Digits1(s, f0)
        e  == Lit(s, Spaces1(s, f1), L_Free)
    IN  IF e = 0 THEN NoMatch
        ELSE Matched(("quantity" :> Group(s, q0, q1)) @@ ("free" :> Group(s, f0, f1)))

\* r"Buy\s+(?P<quantity>\d+),\s+get\s+(?P<free>\d+)\s+(?P<discount>\d+)%\s+off"
MatchBuyGetDiscount(s, i) ==
    LET q0 == Spaces1(s, Lit(s, i, L_Buy))
        q1 == Digits1(s, q0)
        f0 == Spaces1(s, Lit(s, Spaces1(s, Lit(s, q1, <<",">>)), L_get))
        f1 == Digits1(s, f0)
        d0 == Spaces1(s, f1)
        d1 == Digits1(s, d0)
        e  == Lit(s, Spaces1(s, Lit(s, d1, <<"%">>)), L_off)
    IN  IF e = 0 THEN NoMatch
        ELSE Matched(("quantity" :> Group(s, q0, q1)) @@ ("free" :> Group(s, f0, f1))
                     @@ ("discount" :> Group(s, d0, d1)))

\* r'\$(?P<discount>\d+(?:\.\d+)?)\s+off'
MatchDollarOff(s, i) ==
    LET d0 == Lit(s, i, <<"$">>)
        d1 == OptFraction(s, Digits1(s, d0))
        e  == Lit(s, Spaces1(s, d1), L_off)
    IN  IF e = 0 THEN NoMatch ELSE Matched("discount" :> Group(s, d0, d1))

\* r'\$(?P<price_per_lb>\d+(?:\.\d{2})?)\/lb': the optional fraction is tried
\* first, and the match falls back to the bare digits when "/lb" does not follow it
MatchPricePerLb(s, i) ==
    LET d0 == Lit(s, i, <<"$">>)
        n1 == Digits1(s, d0)
        d1 == IF Lit(s, OptFraction2(s, n1), L_lb) # 0 THEN OptFraction2(s, n1) ELSE n1
        e  == Lit(s, d1, L_lb)
    IN  IF e = 0 THEN NoMatch ELSE Matched("price_per_lb" :> Group(s, d0, d1))

\* r'Save\s+\$(?P<savings>\d+(?:\.\d{2})?)'
MatchSavings(s, i) ==
    LET d0 == Lit(s, Spaces1(s, Lit(s, i, L_Save)), <<"$">>)
        d1 == OptFraction2(s, Digits1(s, d0))
    IN  IF d1 = 0 THEN NoMatch ELSE Matched("savings" :> Group(s, d0, d1))

MatchAt(pattern, s, i) ==
    CASE pattern = "buy_get_free"     -> MatchBuyGetFree(s, i)
      [] pattern = "buy_get_discount" -> MatchBuyGetDiscount(s, i)
      [] pattern = "dollar_off"       -> MatchDollarOff(s, i)
      [] pattern = "price_per_lb"     -> MatchPricePerLb(s, i)
      [] pattern = "savings"          -> MatchSavings(s, i)

\* re.search(pattern, s): the leftmost position at which the pattern matches
re_search(pattern, s) ==
    LET hits == {i \in 1..(Len(s) + 1) : MatchAt(pattern, s, i).ok}
    IN  IF hits = {} THEN NoMatch
        ELSE MatchAt(pattern, s, CHOOSE i \in hits : \A j \in hits : i <= j)

\* match.groupdict().get(name): None (here <<>>) for a group the pattern lacks
GroupGet(m, name) == IF name \in DOMAIN m.groups THEN m.groups[name] ELSE <<>>

\* the class attribute `patterns` of each strategy, in order
patterns(cls) ==
    CASE cls = "BuyGetFreeProcessor"     -> <<"buy_get_free", "buy_get_discount">>
      [] cls = "DollarDiscountProcessor" -> <<"dollar_off">>
      [] cls = "PricePerLbProcessor"     -> <<"price_per_lb">>
      [] cls = "SavingsProcessor"        -> <<"savings">>

\* ------------------------------------------------------- values and dicts

Num(x)  == [t |-> "num", v |-> x]
Str(x)  == [t |-> "str", s |-> x]
Bool(x) == [t |-> "bool", b |-> x]

\* what dict.get(key) gives for an absent key
None == [t |-> "none"]

IsNum(val) == val.t = "num"
IsStr(val) == val.t = "str"

\* Python truth value, as `or` and `if price` test it
Truthy(val) ==
    CASE val.t = "num"  -> val.v # 0
      [] val.t = "str"  -> val.s # <<>>
      [] val.t = "bool" -> val.b
      [] val.t = "none" -> FALSE

EmptyDict == [k \in {} |-> None]

Has(d, k) == k \in DOMAIN d

\* d.get(k, default)
Get(d, k, default) == IF Has(d, k) THEN d[k] ELSE default

\* d[k] = val on a dict value
Put(d, k, val) == (k :> val) @@ d

\* the outcome of a call: a returned dict, or the exception that left it
Return(d) == [exc |-> "none", item |-> d]
Raise(kind) == [exc |-> kind, item |-> EmptyDict]

\* ------------------------------------------------------------- strategies

\* a volume price that leaves the discounted items out
BuyGetVolumeNoDiscount(price, quantity, free, discount) == price * quantity * 100

\* 100 times the volume price of "Buy N Get M": price*N, plus
\* price*(1 - discount/100)*M when the pattern has a truthy discount group
BuyGetVolume100(price, quantity, free, discount) ==
    IF discount # <<>>
    THEN price * quantity * 100 + price * (100 - IntOf(discount)) * free
    ELSE price * quantity * 100

\* a Buy/Get deal that stores the volume price as computed, without round(.., 2)
BuyGetDealUnrounded(item, vol100, total_quantity) ==
    Put(Put(Put(item,
        "volume_deals_price", Num(vol100 \div 100)),
        "unit_price", Num(RoundRatio(vol100, 100 * total_quantity))),
        "digital_coupon_price", Str(<<>>))

\* the fields calculate_deal of Buy/Get sets from 100 times the volume price
BuyGetDealFields(item, vol100, total_quantity) ==
    Put(Put(Put(item,
        "volume_deals_price", Num(RoundRatio(vol100, 100))),
        "unit_price", Num(RoundRatio(vol100, 100 * total_quantity))),
        "digital_coupon_price", Str(<<>>))

\* BuyGetFreeProcessor.calculate_deal
BuyGetFree_calculate_deal(item, m) ==
    LET quantity == IntOf(m.groups["quantity"])
        free     == IntOf(m.groups["free"])
    IN  IF ~Has(item, "regular_price") THEN Raise("KeyError")
        ELSE IF ~IsNum(item["regular_price"]) THEN Raise("TypeError")
        ELSE IF quantity + free = 0 THEN Raise("ZeroDivisionError")
        ELSE Return(BuyGetDealFields(item,
                 BuyGetVolume100(item["regular_price"].v, quantity, free,
                                 GroupGet(m, "discount")),
                 quantity + free))

\* item.get('unit_price') or item.get("sale_price") or item.get("regular_price", 0)
BuyGetCouponBase(item) ==
    IF Truthy(Get(item, "unit_price", None)) THEN item["unit_price"]
    ELSE IF Truthy(Get(item, "sale_price", None)) THEN item["sale_price"]
    ELSE Get(item, "regular_price", Num(0))

\* the fields calculate_coupon of Buy/Get sets: the volume price is stored as
\* it is (exact here: the base prices of the model have two decimals)
BuyGetCouponFields(item, vol100, total_quantity) ==
    Put(Put(item,
        "unit_price", Num(RoundRatio(vol100, 100 * total_quantity))),
        "digital_coupon_price", Num(vol100 \div 100))

\* price = float(price) if price else 0
BuyGetCouponPrice(base) ==
    IF ~Truthy(base) THEN 0 ELSE IF IsNum(base) THEN base.v ELSE FloatOf(base.s)

\* BuyGetFreeProcessor.calculate_coupon on the base price `base`
BuyGetCouponOn(item, m, base) ==
    LET quantity == IntOf(m.groups["quantity"])
        free     == IntOf(m.groups["free"])
    IN  IF Truthy(base) /\ IsStr(base) /\ ~IsFloatText(base.s) THEN Raise("ValueError")
        ELSE IF quantity + free = 0 THEN Raise("ZeroDivisionError")
        ELSE Return(BuyGetCouponFields(item,
                 BuyGetVolume100(BuyGetCouponPrice(base), quantity, free,
                                 GroupGet(m, "discount")),
                 quantity + free))

\* BuyGetFreeProcessor.calculate_coupon
BuyGetFree_calculate_coupon(item, m) == BuyGetCouponOn(item, m, BuyGetCouponBase(item))

\* a Dollar-off deal on the sale price where the record has one
DollarDiscount_deal_on_sale_price(item, m) ==
    LET discount_value == FloatOf(m.groups["discount"])
        price          == Get(item, "sale_price", Get(item, "price", Num(0)))
    IN  IF ~IsNum(price) THEN Raise("TypeError")
        ELSE Return(Put(Put(Put(item,
                 "volume_deals_price", Num(Round2(price.v - discount_value))),
                 "unit_price", Num(Round2(price.v - discount_value))),
                 "digital_coupon_price", Str(<<>>)))

\* DollarDiscountProcessor.calculate_deal
DollarDiscount_calculate_deal(item, m) ==
    LET discount_value == FloatOf(m.groups["discount"])
        price          == Get(item, "price", Num(0))
    IN  IF ~IsNum(price) THEN Raise("TypeError")
        ELSE Return(Put(Put(Put(item,
                 "volume_deals_price", Num(Round2(price.v - discount_value))),
                 "unit_price", Num(Round2(price.v - discount_value))),
                 "digital_coupon_price", Str(<<>>)))

\* a Dollar-off coupon that subtracts from the current unit_price, as the
\* Savings coupon does
DollarDiscount_coupon_on_unit_price(item, m) ==
    LET discount_value == FloatOf(m.groups["discount"])
        price          == Get(item, "unit_price", Num(0))
    IN  IF ~IsNum(price) THEN Raise("TypeError")
        ELSE Return(Put(Put(item,
                 "unit_price", Num(Round2(price.v - discount_value))),
                 "digital_coupon_price", Num(Round2(discount_value))))

\* a Dollar-off coupon that stores its local volume_deals_price in the record,
\* as calculate_deal does
DollarDiscount_coupon_sets_volume(item, m) ==
    LET discount_value == FloatOf(m.groups["discount"])
        price          == Get(item, "price", Num(0))
    IN  IF ~IsNum(price) THEN Raise("TypeError")
        ELSE Return(Put(Put(Put(item,
                 "volume_deals_price", Num(Round2(price.v - discount_value))),
                 "unit_price", Num(Round2(price.v - discount_value))),
                 "digital_coupon_price", Num(Round2(discount_value))))

\* DollarDiscountProcessor.calculate_coupon
DollarDiscount_calculate_coupon(item, m) ==
    LET discount_value == FloatOf(m.groups["discount"])
        price          == Get(item, "price", Num(0))
    IN  IF ~IsNum(price) THEN Raise("TypeError")
        ELSE Return(Put(Put(item,
                 "unit_price", Num(Round2(price.v - discount_value))),
                 "digital_coupon_price", Num(Round2(discount_value))))

\* a price-per-lb deal that takes the price of one pound as the volume price
PricePerLb_deal_ignores_weight(item, m) ==
    LET price_per_lb == FloatOf(m.groups["price_per_lb"])
        weight       == Get(item, "weight", Num(Scale))
    IN  IF ~IsNum(weight) THEN Raise("TypeError")
        ELSE Return(Put(Put(Put(item,
                 "volume_deals_price", Num(Round2(price_per_lb))),
                 "unit_price", Num(Round2(price_per_lb))),
                 "digital_coupon_price", Str(<<>>)))

\* PricePerLbProcessor.calculate_deal
PricePerLb_calculate_deal(item, m) ==
    LET price_per_lb == FloatOf(m.groups["price_per_lb"])
        weight       == Get(item, "weight", Num(Scale))
    IN  IF ~IsNum(weight) THEN Raise("TypeError")
        ELSE Return(Put(Put(Put(item,
                 "volume_deals_price", Num(RoundRatio(price_per_lb * weight.v, Scale))),
                 "unit_price", Num(Round2(price_per_lb))),
                 "digital_coupon_price", Str(<<>>)))

\* PricePerLbProcessor.calculate_coupon
PricePerLb_calculate_coupon(item, m) ==
    LET price_per_lb == FloatOf(m.groups["price_per_lb"])
        weight       == Get(item, "weight", Num(Scale))
    IN  IF ~Has(item, "unit_price") THEN Raise("KeyError")
        ELSE IF ~IsNum(weight) \/ ~IsNum(item["unit_price"]) THEN Raise("TypeError")
        ELSE Return(Put(Put(item,
                 "unit_price",
                 Num(RoundRatio(item["unit_price"].v * Scale - price_per_lb * weight.v, Scale))),
                 "digital_coupon_price", Num(price_per_lb)))

\* SavingsProcessor.calculate_deal
Savings_calculate_deal(item, m) ==
    LET savings_value == FloatOf(m.groups["savings"])
        price         == Get(item, "price", Num(0))
    IN  IF ~IsNum(price) THEN Raise("TypeError")
        ELSE Return(Put(Put(Put(item,
                 "volume_deals_price", Num(Round2(price.v - savings_value))),
                 "unit_price", Num(Round2(price.v - savings_value))),
                 "digital_coupon_price", Str(<<>>)))

\* a Savings coupon that subtracts from the raw price field, as the Dollar-off
\* coupon does, instead of the current unit_price
Savings_coupon_on_price(item, m) ==
    LET savings_value == FloatOf(m.groups["savings"])
        price         == Get(item, "price", Num(0))
    IN  IF ~IsNum(price) THEN Raise("TypeError")
        ELSE Return(Put(Put(item,
                 "unit_price", Num(Round2(price.v - savings_value))),
                 "digital_coupon_price", Num(Round2(savings_value))))

\* SavingsProcessor.calculate_coupon
Savings_calculate_coupon(item, m) ==
    LET savings_value == FloatOf(m.groups["savings"])
        price         == Get(item, "unit_price", Num(0))
    IN  IF ~IsNum(price) THEN Raise("TypeError")
        ELSE Return(Put(Put(item,
                 "unit_price", Num(Round2(price.v - savings_value))),
                 "digital_coupon_price", Num(Round2(savings_value))))

\* processor.calculate_deal(updated_item, deal_match) of an instance of cls
calculate_deal(cls, item, m) ==
    CASE cls = "BuyGetFreeProcessor"     -> BuyGetFree_calculate_deal(item, m)
      [] cls = "DollarDiscountProcessor" -> DollarDiscount_calculate_deal(item, m)
      [] cls = "PricePerLbProcessor"     -> PricePerLb_calculate_deal(item, m)
      [] cls = "SavingsProcessor"        -> Savings_calculate_deal(item, m)

\* processor.calculate_coupon(updated_item, coupon_match) of an instance of cls
calculate_coupon(cls, item, m) ==
    CASE cls = "BuyGetFreeProcessor"     -> BuyGetFree_calculate_coupon(item, m)
      [] cls = "DollarDiscountProcessor" -> DollarDiscount_calculate_coupon(item, m)
      [] cls = "PricePerLbProcessor"     -> PricePerLb_calculate_coupon(item, m)
      [] cls = "SavingsProcessor"        -> Savings_calculate_coupon(item, m)

\* ------------------------------------------------------ store-brand tagging

\* the brand names of apply_store_brands, store by store
store_brands ==
    <<<<"P", "r", "i", "v", "a", "t", "e", " ", "S", "e", "l", "e", "c", "t", "i", "o", "n">>,
      <<"K", "r", "o", "g", "e", "r">>,
      <<"S", "i", "m", "p", "l", "e", " ", "T", "r", "u", "t", "h">>,
      <<"S", "i", "m", "p", "l", "e", " ", "T", "r", "u", "t", "h", " ", "O", "r", "g", "a", "n", "i", "c">>,
      <<"D", "e", "a", "l", " ", "W", "o", "r", "t", "h", "y">>,
      <<"G", "o", "o", "d", " ", "&", " ", "G", "a", "t", "h", "e", "r">>,
      <<"M", "a", "r", "k", "e", "t", " ", "P", "a", "n", "t", "r", "y">>,
      <<"F", "a", "v", "o", "r", "i", "t", "e", " ", "D", "a", "y">>,
      <<"K", "i", "n", "d", "f", "u", "l", "l">>,
      <<"S", "m", "a", "r", "t", "l", "y">>,
      <<"U", "p", " ", "&", " ", "U", "p">>,
      <<"L", "u", "c", "e", "r", "n", "e">>,
      <<"S", "i", "g", "n", "a", "t", "u", "r", "e", " ", "S", "e", "l", "e", "c", "t">>,
      <<"O", " ", "O", "r", "g", "a", "n", "i", "c", "s">>,
      <<"O", "p", "e", "n", " ", "N", "a", "t", "u", "r", "e">>,
      <<"W", "a", "t", "e", "r", "f", "r", "o", "n", "t", " ", "B", "i", "s", "t", "r", "o">>,
      <<"P", "r", "i", "m", "o", " ", "T", "a", "g", "l", "i", "o">>,
      <<"S", "o", "l", "e", "i", "l">>,
      <<"V", "a", "l", "u", "e", " ", "C", "o", "r", "n", "e", "r">>,
      <<"R", "e", "a", "d", "y", " ", "M", "e", "a", "l", "s">>,
      <<"C", "l", "e", "a", "r", " ", "A", "m", "e", "r", "i", "c", "a", "n">>,
      <<"G", "r", "e", "a", "t", " ", "V", "a", "l", "u", "e">>,
      <<"H", "o", "m", "e", " ", "B", "a", "k", "e", " ", "V", "a", "l", "u", "e">>,
      <<"M", "a", "r", "k", "e", "t", "s", "i", "d", "e">>,
      <<"C", "o", " ", "S", "q", "u", "a", "r", "e", "d">>,
      <<"B", "e", "s", "t", " ", "O", "c", "c", "a", "s", "i", "o", "n", "s">>,
      <<"M", "a", "s", "h", "-", "U", "p", " ", "C", "o", "f", "f", "e", "e">>,
      <<"W", "o", "r", "l", "d", " ", "T", "a", "b", "l", "e">>>>

\* [brand for brands in store_brands.values() for brand in brands
\*  if brand.casefold() in item["product_title"].casefold()]
store_brands_list(title) ==
    SelectSeq(store_brands, LAMBDA brand : Contains(casefold(title), casefold(brand)))

\* PromoProcessor.apply_store_brands on a dict value: item["brandStatus"] = any(...)
apply_store_brands(item) ==
    IF ~Has(item, "product_title") THEN Raise("KeyError")
    ELSE IF ~IsStr(item["product_title"]) THEN Raise("AttributeError")
    ELSE Return(Put(item, "brandStatus",
                    Bool(store_brands_list(item["product_title"].s) # <<>>)))

\* ------------------------------------------------------------------ inputs

\* the number of records a process may accumulate in PromoProcessor.results
MaxResults == 2

Dollars(d, c) == d * Scale + c * Cent

T_BuyGetFree      == <<"B", "u", "y", " ", "4", ",", " ", "G", "e", "t", " ", "1", " ", "F", "r", "e", "e">>
T_BuyGetDiscount  == <<"B", "u", "y", " ", "3", ",", " ", "g", "e", "t", " ", "1", " ", "2", "0", "%", " ", "o", "f", "f">>
T_BuyTwoGetThree  == <<"B", "u", "y", " ", "2", " ", "G", "e", "t", " ", "3", " ", "F", "r", "e", "e">>
T_BuyNothing      == <<"B", "u", "y", " ", "0", ",", " ", "G", "e", "t", " ", "0", " ", "F", "r", "e", "e">>
T_DollarOff       == <<"$", "2", " ", "o", "f", "f">>
T_PricePerLb      == <<"$", "3", ".", "5", "0", "/", "l", "b">>
T_Save            == <<"S", "a", "v", "e", " ", "$", "5">>
T_SaveOff         == <<"S", "a", "v", "e", " ", "$", "1", " ", "o", "f", "f">>
T_LowerBuyGetFree == <<"b", "u", "y", " ", "4", ",", " ", "g", "e", "t", " ", "1", " ", "f", "r", "e", "e">>
T_UpperSave       == <<"S", "A", "V", "E", " ", "$", "5">>
T_KrogerMilk      == <<"K", "r", "o", "g", "e", "r", " ", "M", "i", "l", "k">>
T_Milk            == <<"M", "i", "l", "k">>
T_Currency        == <<"$", "4", ".", "9", "9">>
T_TwoLb           == <<"2", " ", "l", "b">>

\* None stands for a record without the key
WithKey(d, k, val) == IF val = None THEN d ELSE Put(d, k, val)

WithTexts(d, deal, coupon) ==
    WithKey(WithKey(d, "volume_deals_description", deal),
            "digital_coupon_short_description", coupon)

\* a record with every price field numeric
PricedProfile ==
    ("price" :> Num(Dollars(5, 0))) @@ ("regular_price" :> Num(Dollars(9, 99))) @@
    ("sale_price" :> Num(Dollars(8, 0))) @@ ("weight" :> Num(2 * Scale)) @@
    ("product_title" :> Str(T_KrogerMilk))

\* a scraped record as main() hands it over: text and fillna("") in the price fields
MalformedProfile ==
    ("price" :> Str(<<>>)) @@ ("regular_price" :> Str(T_Currency)) @@
    ("sale_price" :> Str(<<>>)) @@ ("weight" :> Str(T_TwoLb)) @@
    ("product_title" :> Str(T_Milk))

\* a record with a regular price and nothing else, not even a title
BareProfile == "regular_price" :> Num(Dollars(10, 0))

Profiles == {PricedProfile, MalformedProfile, BareProfile}

\* the records of the batches handed to process_item
Records ==
    {WithTexts(p, d, c) :
        p \in Profiles,
        d \in {None, Str(T_SaveOff), Str(T_BuyGetDiscount)},
        c \in {Str(<<>>), Str(T_PricePerLb)}}

RECURSIVE SeqsOfLen(_, _)
SeqsOfLen(S, n) ==
    IF n = 0 THEN {<<>>}
    ELSE {Append(q, x) : q \in SeqsOfLen(S, n - 1), x \in S}

\* the lists a caller may pass: one to MaxResults records
Batches == UNION {SeqsOfLen(Records, n) : n \in 1..MaxResults}

PromoTexts ==
    {Str(<<>>), Str(T_BuyGetFree), Str(T_BuyGetDiscount), Str(T_BuyTwoGetThree),
     Str(T_BuyNothing), Str(T_DollarOff),
     Str(T_PricePerLb), Str(T_Save), Str(T_SaveOff), Str(T_LowerBuyGetFree), Str(T_UpperSave)}

PriceValues == {None, Num(Dollars(5, 0)), Num(Dollars(20, 0)), Str(<<>>)}

RegularPriceValues ==
    {None, Num(Dollars(10, 0)), Num(Dollars(9, 0)), Num(Dollars(9, 99)), Str(T_Currency)}

SalePriceValues == {None, Num(Dollars(8, 0))}

WeightValues == {None, Num(2 * Scale), Str(T_TwoLb)}

\* the records handed to process_single_item alone: every combination of the
\* field values above
ItemRecords ==
    {WithTexts(WithKey(WithKey(WithKey(WithKey(EmptyDict,
         "price", p), "regular_price", r), "sale_price", sp), "weight", w), d, c) :
        p \in PriceValues, r \in RegularPriceValues, sp \in SalePriceValues,
        w \in WeightValues, d \in PromoTexts \cup {None}, c \in PromoTexts}

Module_buy_x_get_y == "BuyGetFreeProcessor"
Module_dollor_discount == "DollarDiscountProcessor"
Module_price_per_lb == "PricePerLbProcessor"
Module_savings == "SavingsProcessor"

\* the strategy modules main.py imports: it imports promo_processor.processor
\* alone, and that module imports none
MainImports == <<>>

\* __init_subclass__: PromoProcessor.subclasses.append(cls)
init_subclass(subs, cls) == Append(subs, cls)

RECURSIVE Registered(_)
\* PromoProcessor.subclasses after the class statements of the modules `mods`
\* ran in that order
Registered(mods) ==
    IF mods = <<>> THEN <<>>
    ELSE init_subclass(Registered(SubSeq(mods, 1, Len(mods) - 1)), mods[Len(mods)])

\* the catalogs a process may start with: that of main.py, and those of a
\* caller that imported the four strategy modules by module name or in the
\* reverse order
ImportOrders ==
    { Registered(MainImports),
      Registered(<<Module_buy_x_get_y, Module_dollor_discount, Module_price_per_lb,
                   Module_savings>>),
      Registered(<<Module_savings, Module_price_per_lb, Module_dollor_discount,
                   Module_buy_x_get_y>>) }

\* ------------------------------------------------------------------- state

VARIABLES
    subclasses,     \* PromoProcessor.subclasses, in registration order
    results,        \* PromoProcessor.results, the class-level list
    run,            \* which run of the program is calling: 1, then 2
    runBase,        \* Len(results) when the calling run began
    pc,             \* "idle", or where the call of process_item is
    input,          \* the caller's records (the argument of process_item)
    given,          \* the value of input when process_item was called
    before,         \* the value of results when process_item was called
    entry,          \* how the call was made: "list" or "record" for process_item,
                    \* "process_single_item" for that method called alone
    idx,            \* the record of input being processed
    acc,            \* the list being built for results.extend / append
    updated_item,   \* the local updated_item: a reference to a dict
    dealt,          \* the record as the deal pass left it
    calls,          \* the strategy calculations invoked for the current record
    passes,         \* the passes run for the current record, in order
    outcome         \* the exception that left the call and the function that raised it

vars == <<subclasses, results, run, runBase, pc, input, given, before, entry, idx,
          acc, updated_item, dealt, calls, passes, outcome>>

\* a reference to a dict: a dict of its own (ref = 0), or the caller's ref-th record
Own(d) == [ref |-> 0, val |-> d]
Alias(i) == [ref |-> i, val |-> EmptyDict]

NoItem == Own(EmptyDict)

Deref(r) == IF r.ref = 0 THEN r.val ELSE input[r.ref]

NoCalls == [deal |-> <<>>, coupon |-> <<>>]

NoOutcome == [exc |-> "none", from |-> "none"]

\* ------------------------------------------------------ the two pass loops

\* the description field a pass searches
DescriptionKey(mode) ==
    IF mode = "deal" THEN "volume_deals_description" ELSE "digital_coupon_short_description"

Calculate(mode, cls, item, m) ==
    IF mode = "deal" THEN calculate_deal(cls, item, m) ELSE calculate_coupon(cls, item, m)

\* what the pattern loop of one class hands back: whether a calculation
\* returned, the exception, the record, and the calculations invoked
NotProcessed(item, exc) ==
    [processed |-> FALSE, exc |-> exc, item |-> item, calls |-> <<>>]

\* updated_item = processor.calculate_...(updated_item, match), the flag set
\* and `break`; an exception leaves the loops
Invoked(cls, pattern, item, out) ==
    [processed |-> out.exc = "none",
     exc       |-> out.exc,
     item      |-> IF out.exc = "none" THEN out.item ELSE item,
     calls     |-> << <<cls, pattern>> >>]

RECURSIVE PatternLoop(_, _, _, _)
RECURSIVE TryPattern(_, _, _, _, _)

\* `if deal_match:` / `if coupon_match:` for the j-th pattern of cls
TryPattern(mode, cls, j, item, m) ==
    IF m.ok
    THEN Invoked(cls, patterns(cls)[j], item, Calculate(mode, cls, item, m))
    ELSE PatternLoop(mode, cls, j + 1, item)

\* a pattern loop that reads the description as updated_item[key], as the
\* logging calls do, instead of updated_item.get(key, "")
PatternLoopStrict(mode, cls, j, item) ==
    IF j > Len(patterns(cls)) THEN NotProcessed(item, "none")
    ELSE IF ~Has(item, DescriptionKey(mode)) THEN NotProcessed(item, "KeyError")
    ELSE IF ~IsStr(item[DescriptionKey(mode)]) THEN NotProcessed(item, "TypeError")
    ELSE TryPattern(mode, cls, j, item,
                    re_search(patterns(cls)[j], item[DescriptionKey(mode)].s))

\* `for pattern in processor.patterns:` from the j-th pattern on: re.search
\* on the description, "" when the record has none
PatternLoop(mode, cls, j, item) ==
    IF j > Len(patterns(cls)) THEN NotProcessed(item, "none")
    ELSE IF ~IsStr(Get(item, DescriptionKey(mode), Str(<<>>)))
    THEN NotProcessed(item, "TypeError")
    ELSE TryPattern(mode, cls, j, item,
                    re_search(patterns(cls)[j], Get(item, DescriptionKey(mode), Str(<<>>)).s))

\* loops without the two `break` statements: every class is searched
NeverBreak(processed) == FALSE

\* `if deal_processed: break` / `if coupon_processed: break`
BreakAfterMatch(processed) == processed

RECURSIVE ClassLoop(_, _, _, _)
RECURSIVE AfterClass(_, _, _, _)

\* after the pattern loop of the i-th class gave r
AfterClass(mode, i, done, r) ==
    IF r.exc # "none" THEN [exc |-> r.exc, item |-> r.item, calls |-> done \o r.calls]
    ELSE IF BreakAfterMatch(r.processed)
    THEN [exc |-> "none", item |-> r.item, calls |-> done \o r.calls]
    ELSE ClassLoop(mode, i + 1, r.item, done \o r.calls)

\* `for processor_class in cls.subclasses:` from the i-th class on
ClassLoop(mode, i, item, done) ==
    IF i > Len(subclasses) THEN [exc |-> "none", item |-> item, calls |-> done]
    ELSE AfterClass(mode, i, done, PatternLoop(mode, subclasses[i], 1, item))

\* one pass of process_single_item over the whole catalog
Pass(mode, item) == ClassLoop(mode, 1, item, <<>>)

\* ----------------------------------------------------------------- actions

Init ==
    /\ subclasses \in ImportOrders
    /\ results = <<>>
    /\ run = 1
    /\ runBase = 0
    /\ pc = "idle"
    /\ input = <<>>
    /\ given = <<>>
    /\ before = <<>>
    /\ entry = "none"
    /\ idx = 0
    /\ acc = <<>>
    /\ updated_item = NoItem
    /\ dealt = EmptyDict
    /\ calls = NoCalls
    /\ passes = <<>>
    /\ outcome = NoOutcome

\* main() runs again in the same process: PromoProcessor and its class
\* attributes are those the first run left
StartRun ==
    /\ pc = "idle"
    /\ run = 1
    /\ run' = 2
    /\ runBase' = Len(results)
    /\ UNCHANGED <<subclasses, results, pc, input, given, before, entry, idx, acc,
                   updated_item, dealt, calls, passes, outcome>>

\* a call is entered with the records `batch`
Enter(batch, how) ==
    /\ pc = "idle"
    /\ Len(results) + Len(batch) <= MaxResults
    /\ input' = batch
    /\ given' = batch
    /\ before' = results
    /\ entry' = how
    /\ idx' = 1
    /\ acc' = <<>>
    /\ pc' = "NotStarted"
    /\ updated_item' = NoItem
    /\ dealt' = EmptyDict
    /\ calls' = NoCalls
    /\ passes' = <<>>
    /\ outcome' = NoOutcome
    /\ UNCHANGED <<subclasses, results, run, runBase>>

\* PromoProcessor.process_item(item_data) with a single record
CallSingle ==
    /\ pc = "idle"
    /\ \E item \in Records : Enter(<<item>>, "record")

\* PromoProcessor.process_item(item_data) with a list of records
CallList ==
    /\ pc = "idle"
    /\ \E batch \in Batches : Enter(batch, "list")

\* PromoProcessor.process_single_item(item_data) called on its own
CallItem ==
    /\ pc = "idle"
    /\ results = <<>>
    /\ \E item \in ItemRecords : Enter(<<item>>, "process_single_item")

\* updated_item = item_data, without the copy
alias_item(i) == Alias(i)

\* updated_item = item_data.copy()
copy_item(i) == Own(input[i])

\* process_single_item is entered for the idx-th record
Begin ==
    /\ pc = "NotStarted"
    /\ updated_item' = copy_item(idx)
    /\ dealt' = EmptyDict
    /\ calls' = NoCalls
    /\ passes' = <<>>
    /\ pc' = "DealPass"
    /\ UNCHANGED <<subclasses, results, run, runBase, input, given, before, entry, idx,
                   acc, outcome>>

\* an exception leaving a process_item that appends to results record by
\* record: the records processed before the failing one are in results
PropagateAfterAppends(exc, from) ==
    /\ pc' = "Raised"
    /\ outcome' = [exc |-> exc, from |-> from]
    /\ results' = results \o acc
    /\ acc' = <<>>
    /\ updated_item' = NoItem
    /\ UNCHANGED <<subclasses, run, runBase, input, given, before, entry, idx, dealt>>

\* an exception leaves process_single_item, the list being built and process_item
Propagate(exc, from) ==
    /\ pc' = "Raised"
    /\ outcome' = [exc |-> exc, from |-> from]
    /\ acc' = <<>>
    /\ updated_item' = NoItem
    /\ UNCHANGED <<subclasses, results, run, runBase, input, given, before, entry, idx,
                   dealt>>

\* the deal pass: a strategy's result is bound to updated_item
DealPass ==
    /\ pc = "DealPass"
    /\ \E r \in {Pass("deal", Deref(updated_item))} :
           /\ r.exc = "none"
           /\ updated_item' = IF r.calls = <<>> THEN updated_item ELSE Own(r.item)
           /\ dealt' = r.item
           /\ calls' = [calls EXCEPT !.deal = r.calls]
    /\ passes' = Append(passes, "deal")
    /\ pc' = "CouponPass"
    /\ UNCHANGED <<subclasses, results, run, runBase, input, given, before, entry, idx,
                   acc, outcome>>

\* the deal pass when calculate_deal raises: nothing catches it
DealPassRaises ==
    /\ pc = "DealPass"
    /\ \E r \in {Pass("deal", Deref(updated_item))} :
           /\ r.exc # "none"
           /\ calls' = [calls EXCEPT !.deal = r.calls]
           /\ Propagate(r.exc, IF r.calls = <<>> THEN "re.search" ELSE "calculate_deal")
    /\ passes' = Append(passes, "deal")

\* the coupon pass, on the record the deal pass left
CouponPass ==
    /\ pc = "CouponPass"
    /\ \E r \in {Pass("coupon", Deref(updated_item))} :
           /\ r.exc = "none"
           /\ updated_item' = IF r.calls = <<>> THEN updated_item ELSE Own(r.item)
           /\ calls' = [calls EXCEPT !.coupon = r.calls]
    /\ passes' = Append(passes, "coupon")
    /\ pc' = "Done"
    /\ UNCHANGED <<subclasses, results, run, runBase, input, given, before, entry, idx,
                   acc, dealt, outcome>>

\* the coupon pass when calculate_coupon raises
CouponPassRaises ==
    /\ pc = "CouponPass"
    /\ \E r \in {Pass("coupon", Deref(updated_item))} :
           /\ r.exc # "none"
           /\ calls' = [calls EXCEPT !.coupon = r.calls]
           /\ Propagate(r.exc, IF r.calls = <<>> THEN "re.search" ELSE "calculate_coupon")
    /\ passes' = Append(passes, "coupon")

\* process_single_item returns updated_item and apply_store_brands sets
\* brandStatus on that very dict, which joins the list being built
Tag ==
    /\ pc = "Done"
    /\ entry # "process_single_item"
    /\ \E out \in {apply_store_brands(Deref(updated_item))} :
           /\ out.exc = "none"
           /\ acc' = Append(acc, out.item)
           /\ input' = IF updated_item.ref = 0 THEN input
                       ELSE [input EXCEPT ![updated_item.ref] = out.item]
    /\ updated_item' = NoItem
    /\ IF idx < Len(input)
       THEN idx' = idx + 1 /\ pc' = "NotStarted"
       ELSE idx' = idx /\ pc' = "Extend"
    /\ UNCHANGED <<subclasses, results, run, runBase, given, before, entry, dealt, calls,
                   passes, outcome>>

\* apply_store_brands raises on the returned record
TagRaises ==
    /\ pc = "Done"
    /\ entry # "process_single_item"
    /\ \E out \in {apply_store_brands(Deref(updated_item))} :
           /\ out.exc # "none"
           /\ Propagate(out.exc, "apply_store_brands")
    /\ UNCHANGED <<calls, passes>>

\* `return updated_item` to a caller of process_single_item
ReturnItem ==
    /\ pc = "Done"
    /\ entry = "process_single_item"
    /\ pc' = "Returned"
    /\ UNCHANGED <<subclasses, results, run, runBase, input, given, before, entry, idx, acc,
                   updated_item, dealt, calls, passes, outcome>>

\* cls.results.extend([...]) for a list, cls.results.append(...) for a record
Extend ==
    /\ pc = "Extend"
    /\ results' = results \o acc
    /\ acc' = <<>>
    /\ pc' = "Returned"
    /\ UNCHANGED <<subclasses, run, runBase, input, given, before, entry, idx,
                   updated_item, dealt, calls, passes, outcome>>

\* `return cls`, or the exception reaching the caller: the call is over and
\* its arguments and locals are gone
Resume ==
    /\ pc \in {"Returned", "Raised"}
    /\ pc' = "idle"
    /\ input' = <<>>
    /\ given' = <<>>
    /\ before' = <<>>
    /\ entry' = "none"
    /\ idx' = 0
    /\ dealt' = EmptyDict
    /\ calls' = NoCalls
    /\ passes' = <<>>
    /\ outcome' = NoOutcome
    /\ updated_item' = NoItem
    /\ UNCHANGED <<subclasses, results, run, runBase, acc>>

Next ==
    \/ StartRun
    \/ CallSingle
    \/ CallList
    \/ Begin
    \/ DealPass
    \/ DealPassRaises
    \/ CouponPass
    \/ CouponPassRaises
    \/ Tag
    \/ TagRaises
    \/ Extend
    \/ Resume

Spec == Init /\ [][Next]_vars

\* process_single_item called on its own, one record after another
ItemNext ==
    \/ CallItem
    \/ Begin
    \/ DealPass
    \/ DealPassRaises
    \/ CouponPass
    \/ CouponPassRaises
    \/ ReturnItem
    \/ Resume

ItemSpec == Init /\ [][ItemNext]_vars


\* ------------------------------------------------------------- properties

PriceKeys == {"volume_deals_price", "unit_price", "digital_coupon_price"}

DerivedKeys == PriceKeys \cup {"brandStatus"}

\* the record process_single_item is about to return
Returning == Deref(updated_item)

\* a number with two decimals, or the empty string
PriceFieldOk(val) == val = Str(<<>>) \/ (IsNum(val) /\ val.v % Cent = 0)

TwoDecimals(val) == IsNum(val) /\ val.v % Cent = 0

\* the description the deal pass / the coupon pass of the current record searches
DealText == Get(given[idx], "volume_deals_description", Str(<<>>)).s
CouponText == Get(given[idx], "digital_coupon_short_description", Str(<<>>)).s

\* the catalog flattened in registration order: class by class, and pattern by
\* pattern within a class
RECURSIVE CatalogFrom(_)
CatalogFrom(i) ==
    IF i > Len(subclasses) THEN <<>>
    ELSE [j \in 1..Len(patterns(subclasses[i])) |->
             <<subclasses[i], patterns(subclasses[i])[j]>>] \o CatalogFrom(i + 1)

Catalog == CatalogFrom(1)

Hits(text) == {k \in 1..Len(Catalog) : re_search(Catalog[k][2], text).ok}

FirstOf(hits) ==
    IF hits = {} THEN <<>> ELSE << Catalog[CHOOSE k \in hits : \A h \in hits : k <= h] >>

\* the calculations a pass over `text` is to invoke: that of the earliest
\* catalog entry matching it, if any
FirstMatching(text) == FirstOf(Hits(text))

\* C1 as stated: every record process_single_item returns carries
\* volume_deals_price, unit_price and digital_coupon_price, each a number
\* rounded to two decimals or the empty string.
C1_ThreePricesAlways ==
    pc = "Done" =>
        \A k \in PriceKeys : Has(Returning, k) /\ PriceFieldOk(Returning[k])

\* C1 amended: when the deal pass invoked a strategy, the returned record
\* carries the three keys; volume_deals_price and unit_price are numbers with
\* two decimals; digital_coupon_price is "" when the coupon pass matched
\* nothing and otherwise a number, with two decimals unless the Buy/Get coupon
\* calculation set it.
C1_PricesAfterDealMatch ==
    (pc = "Done" /\ calls.deal # <<>>) =>
        /\ \A k \in PriceKeys : Has(Returning, k)
        /\ TwoDecimals(Returning["volume_deals_price"])
        /\ TwoDecimals(Returning["unit_price"])
        /\ IF calls.coupon = <<>>
           THEN Returning["digital_coupon_price"] = Str(<<>>)
           ELSE /\ IsNum(Returning["digital_coupon_price"])
                /\ calls.coupon[1][1] # "BuyGetFreeProcessor"
                       => TwoDecimals(Returning["digital_coupon_price"])

\* a deal matched and the Buy/Get coupon left a digital_coupon_price with more
\* than two decimals
C1_Witness ==
    /\ pc = "Done"
    /\ calls.deal # <<>>
    /\ calls.coupon # <<>>
    /\ calls.coupon[1][1] = "BuyGetFreeProcessor"
    /\ Returning["digital_coupon_price"].v % Cent # 0

\* C2: in each pass the catalog is searched in registration order and the
\* search stops at the first match: a pass invokes at most one calculation,
\* that of the earliest catalog entry whose pattern matches the description.
C2_FirstMatchWins ==
    /\ Len(calls.deal) <= 1
    /\ Len(calls.coupon) <= 1
    /\ Len(passes) >= 1 => calls.deal = FirstMatching(DealText)
    /\ Len(passes) >= 2 => calls.coupon = FirstMatching(CouponText)

\* a deal description that matches two catalog entries was searched, and only
\* the earlier-registered one was invoked
C2_Witness ==
    /\ pc = "Done"
    /\ Cardinality(Hits(DealText)) = 2
    /\ Len(calls.deal) = 1
    /\ calls.deal[1] = Catalog[CHOOSE k \in Hits(DealText) : \A h \in Hits(DealText) : k <= h]

\* C3: an exception raised by calculate_deal or calculate_coupon is caught
\* inside its pass; it never leaves process_single_item.
C3_StrategyExceptionCaught ==
    outcome.from \notin {"calculate_deal", "calculate_coupon"}

\* C4: process_single_item follows NotStarted -> DealPass -> CouponPass -> Done,
\* each pass once, and always reaches Done.
C4_AlwaysReachesDone ==
    [][/\ pc = "NotStarted" => pc' = "DealPass"
       /\ pc = "DealPass" => pc' = "CouponPass" /\ passes' = <<"deal">>
       /\ pc = "CouponPass" => pc' = "Done" /\ passes' = <<"deal", "coupon">>]_vars

\* the amount X of the descriptions that the Savings pattern matches
SavingsAmount(text) ==
    CASE text = T_Save    -> Dollars(5, 0)
      [] text = T_SaveOff -> Dollars(1, 0)

\* C5: when the deal pass invoked a strategy, leaving unit_price u, and the
\* coupon pass selects Savings on "Save $X", the returned record has
\* unit_price = round(u - X, 2) and digital_coupon_price = round(X, 2).
C5_SaveCouponOnDealPrice ==
    (/\ pc = "Done"
     /\ calls.deal # <<>>
     /\ calls.coupon = << <<"SavingsProcessor", "savings">> >>) =>
        /\ Returning["unit_price"] =
               Num(Round2(dealt["unit_price"].v - SavingsAmount(CouponText)))
        /\ Returning["digital_coupon_price"] = Num(Round2(SavingsAmount(CouponText)))

\* a Savings coupon after a deal whose unit_price differs from the raw price
C5_Witness ==
    /\ pc = "Done"
    /\ calls.deal # <<>>
    /\ calls.coupon = << <<"SavingsProcessor", "savings">> >>
    /\ Has(given[idx], "price")
    /\ IsNum(given[idx]["price"])
    /\ dealt["unit_price"] # given[idx]["price"]
    /\ Returning["unit_price"] = Num(dealt["unit_price"].v - SavingsAmount(CouponText))

\* C6: process_item never mutates an input record: at every moment of a call
\* the records passed in are as the caller built them.
C6_InputNeverMutated == input = given

\* a list of two records was processed and appended; the appended records have
\* brandStatus and price fields that their inputs lack
C6_Witness ==
    /\ pc = "Returned"
    /\ entry = "list"
    /\ Len(given) = 2
    /\ Len(results) = 2
    /\ \E i \in 1..2 :
           /\ Has(results[i], "brandStatus")
           /\ Has(results[i], "unit_price")
           /\ ~Has(input[i], "brandStatus")
           /\ ~Has(input[i], "unit_price")

\* out holds every field of the input record inp that is not a derived field
PassThrough(out, inp) ==
    \A k \in DOMAIN inp \ DerivedKeys : Has(out, k) /\ out[k] = inp[k]

\* C7: when a call of process_item is over, results holds one more record per
\* input record, the i-th new one derived from the i-th input.
C7_OneDerivedPerInput ==
    (pc \in {"Returned", "Raised"} /\ entry \in {"record", "list"}) =>
        /\ Len(results) = Len(before) + Len(given)
        /\ \A i \in 1..Len(given) : PassThrough(results[Len(before) + i], given[i])

\* C8: the accumulation of a run holds no record of another run: the list the
\* second run appends to starts empty.
C8_RunsDoNotShareResults == runBase = 0

\* C9: the record process_single_item returns has digital_coupon_description
\* with the value of the input's digital_coupon_short_description, no longer
\* has digital_coupon_short_description, and keeps every other input field.
C9_CouponDescriptionRenamed ==
    pc = "Done" =>
        /\ Has(Returning, "digital_coupon_description")
        /\ Returning["digital_coupon_description"] = Str(CouponText)
        /\ ~Has(Returning, "digital_coupon_short_description")
        /\ PassThrough(Returning, [k \in DOMAIN given[idx] \ {"digital_coupon_short_description"}
                                      |-> given[idx][k]])

\* the record has a price field or a weight that is present and not a number
Malformed(item) ==
    \E k \in {"price", "regular_price", "sale_price", "unit_price", "weight"} :
        Has(item, k) /\ ~IsNum(item[k])

\* C10: a malformed price or weight never raises: no call ends with a
\* TypeError or ValueError of a strategy on a record with such a field.
C10_MalformedNeverRaises ==
    ~(/\ pc = "Raised"
      /\ outcome.exc \in {"TypeError", "ValueError"}
      /\ outcome.from \in {"calculate_deal", "calculate_coupon"}
      /\ Malformed(given[idx]))


\* the same description in the letter case the patterns are written in
PatternCase(text) ==
    CASE text = T_LowerBuyGetFree -> T_BuyGetFree
      [] text = T_UpperSave       -> T_Save
      [] OTHER                    -> text

\* C11: the patterns match case-insensitively: a description that differs
\* from a matching one only in letter case selects the same strategy in
\* either pass.
C11_CaseInsensitiveMatch ==
    /\ Len(passes) >= 1 => calls.deal = FirstMatching(PatternCase(DealText))
    /\ Len(passes) >= 2 => calls.coupon = FirstMatching(PatternCase(CouponText))

\* the descriptions of the model that no pattern of the catalog matches
UnmatchedTexts == {<<>>, T_LowerBuyGetFree, T_UpperSave}

\* C12: when neither description matches a pattern, absent and empty
\* descriptions included, process_single_item raises nothing and returns a
\* record with exactly the keys and values of its input.
C12_NoMatchNoChange ==
    (/\ Len(passes) >= 1
     /\ DealText \in UnmatchedTexts
     /\ CouponText \in UnmatchedTexts) =>
        /\ outcome = NoOutcome
        /\ calls = NoCalls
        /\ pc \in {"Done", "Returned"} => Returning = given[idx]

\* with the four strategies registered, a record without a deal description and
\* with a coupon description in another letter case came back as it went in
C12_Witness ==
    /\ pc = "Done"
    /\ Len(subclasses) = 4
    /\ ~Has(given[idx], "volume_deals_description")
    /\ CouponText = T_UpperSave
    /\ Has(given[idx], "price")
    /\ Returning = given[idx]


\* out has, outside the three price fields, the keys and values of inp
FrameKept(out, inp) ==
    /\ DOMAIN out \ PriceKeys = DOMAIN inp \ PriceKeys
    /\ \A k \in DOMAIN inp \ PriceKeys : out[k] = inp[k]

\* out has volume_deals_price exactly as inp has it
VolumeKept(out, inp) ==
    /\ Has(out, "volume_deals_price") <=> Has(inp, "volume_deals_price")
    /\ Has(inp, "volume_deals_price") => out["volume_deals_price"] = inp["volume_deals_price"]

\* C13: a strategy changes only volume_deals_price, unit_price and
\* digital_coupon_price: the record after the deal pass, and the record after
\* the coupon pass, have every other key as before that pass, and the coupon
\* pass leaves volume_deals_price as it found it.
C13_StrategiesOwnFields ==
    /\ pc \in {"CouponPass", "Done", "Returned"} => FrameKept(dealt, given[idx])
    /\ pc \in {"Done", "Returned"} =>
           /\ FrameKept(Returning, dealt)
           /\ VolumeKept(Returning, dealt)

\* both passes invoked a strategy on a record with other fields, and the coupon
\* changed unit_price
C13_Witness ==
    /\ pc = "Done"
    /\ calls.deal # <<>>
    /\ calls.coupon # <<>>
    /\ Has(given[idx], "weight")
    /\ Has(given[idx], "sale_price")
    /\ Returning["unit_price"] # dealt["unit_price"]
    /\ Returning["volume_deals_price"] = dealt["volume_deals_price"]


\* the quantities N and M and the discount X (in percent; 0 where the
\* description has none, the M items then not being charged at all) of the
\* Buy/Get descriptions of the model
BuyGetTerms(text) ==
    CASE text = T_BuyGetFree     -> [N |-> 4, M |-> 1, discounted |-> FALSE, X |-> 0]
      [] text = T_BuyTwoGetThree -> [N |-> 2, M |-> 3, discounted |-> FALSE, X |-> 0]
      [] text = T_BuyGetDiscount -> [N |-> 3, M |-> 1, discounted |-> TRUE, X |-> 20]
      [] text = T_BuyNothing     -> [N |-> 0, M |-> 0, discounted |-> FALSE, X |-> 0]

BuyGetTexts == {T_BuyGetFree, T_BuyTwoGetThree, T_BuyGetDiscount, T_BuyNothing}

\* 100 times p*N, or 100 times p*N + p*(1 - X/100)*M with a discount
BuyGetTotal100(p, t) ==
    IF t.discounted THEN p * t.N * 100 + p * (100 - t.X) * t.M ELSE p * t.N * 100

\* the three fields the claim C14 gives for base price p and terms t
BuyGetDealExpected(item, p, t) ==
    /\ item["volume_deals_price"] = Num(RoundRatio(BuyGetTotal100(p, t), 100))
    /\ item["unit_price"] = Num(RoundRatio(BuyGetTotal100(p, t), 100 * (t.N + t.M)))
    /\ item["digital_coupon_price"] = Str(<<>>)

\* C14: Buy N Get M in deal mode with numeric regular_price p and N + M > 0:
\* volume_deals_price = round(p*N, 2), or round(p*N + p*(1 - X/100)*M, 2) with
\* a discount; unit_price = round(unrounded volume price / (N + M), 2);
\* digital_coupon_price = "".
C14_BuyGetDeal ==
    (/\ pc \in {"CouponPass", "Raised"}
     /\ Len(passes) = 1
     /\ Len(subclasses) = 4
     /\ DealText \in BuyGetTexts
     /\ BuyGetTerms(DealText).N + BuyGetTerms(DealText).M > 0
     /\ Has(given[idx], "regular_price")
     /\ IsNum(given[idx]["regular_price"])) =>
        /\ pc = "CouponPass"
        /\ calls.deal[1][1] = "BuyGetFreeProcessor"
        /\ BuyGetDealExpected(dealt, given[idx]["regular_price"].v, BuyGetTerms(DealText))

\* "Buy 3, get 1 20% off" at 9.00 gave 34.20 and 8.55
C14_Witness ==
    /\ pc = "CouponPass"
    /\ calls.deal # <<>>
    /\ DealText = T_BuyGetDiscount
    /\ Has(given[idx], "regular_price")
    /\ given[idx]["regular_price"] = Num(Dollars(9, 0))
    /\ dealt["volume_deals_price"] = Num(Dollars(34, 20))
    /\ dealt["unit_price"] = Num(Dollars(8, 55))
    /\ dealt["digital_coupon_price"] = Str(<<>>)


\* the amount X of the descriptions that the Dollar-off pattern matches
DollarAmount(text) ==
    CASE text = T_DollarOff -> Dollars(2, 0)
      [] text = T_SaveOff   -> Dollars(1, 0)

\* the amount X of the description a Dollar-off or Savings calculation was
\* invoked on
AmountOff(cls, text) ==
    IF cls = "DollarDiscountProcessor" THEN DollarAmount(text) ELSE SavingsAmount(text)

\* the record's raw price field, 0 for a record without it
RawPrice(item) == Get(item, "price", Num(0))

\* C15: Dollar-off and Savings in deal mode, on a record whose price field is
\* a number or absent (0): volume_deals_price = round(price - X, 2),
\* unit_price = volume_deals_price, digital_coupon_price = "".
C15_AmountOffDeal ==
    (/\ pc \in {"CouponPass", "Raised"}
     /\ Len(passes) = 1
     /\ calls.deal # <<>>
     /\ calls.deal[1][1] \in {"DollarDiscountProcessor", "SavingsProcessor"}
     /\ IsNum(RawPrice(given[idx]))) =>
        /\ pc = "CouponPass"
        /\ dealt["volume_deals_price"] =
               Num(Round2(RawPrice(given[idx]).v - AmountOff(calls.deal[1][1], DealText)))
        /\ dealt["unit_price"] = dealt["volume_deals_price"]
        /\ dealt["digital_coupon_price"] = Str(<<>>)

\* "$2 off" with price 5.00 gave 3.00, 3.00 and "" though the record has a
\* sale price and a regular price
C15_Witness ==
    /\ pc = "CouponPass"
    /\ calls.deal # <<>>
    /\ DealText = T_DollarOff
    /\ RawPrice(given[idx]) = Num(Dollars(5, 0))
    /\ Has(given[idx], "sale_price")
    /\ Has(given[idx], "regular_price")
    /\ dealt["volume_deals_price"] = Num(Dollars(3, 0))
    /\ dealt["unit_price"] = Num(Dollars(3, 0))
    /\ dealt["digital_coupon_price"] = Str(<<>>)

\* the price per pound X of the description the price-per-lb pattern matches
PerLbAmount(text) == CASE text = T_PricePerLb -> Dollars(3, 50)

\* the record's weight, 1 for a record without it
WeightOf(item) == Get(item, "weight", Num(Scale))

\* C16: price-per-lb in deal mode, on a record whose weight is a number or
\* absent (1): volume_deals_price = round(X * weight, 2), unit_price =
\* round(X, 2), digital_coupon_price = "".
C16_PerLbDeal ==
    (/\ pc \in {"CouponPass", "Raised"}
     /\ Len(passes) = 1
     /\ calls.deal # <<>>
     /\ calls.deal[1][1] = "PricePerLbProcessor"
     /\ IsNum(WeightOf(given[idx]))) =>
        /\ pc = "CouponPass"
        /\ dealt["volume_deals_price"] =
               Num(RoundRatio(PerLbAmount(DealText) * WeightOf(given[idx]).v, Scale))
        /\ dealt["unit_price"] = Num(Round2(PerLbAmount(DealText)))
        /\ dealt["digital_coupon_price"] = Str(<<>>)

\* "$3.50/lb" with weight 2 gave 7.00 and 3.50
C16_Witness ==
    /\ pc = "CouponPass"
    /\ calls.deal # <<>>
    /\ DealText = T_PricePerLb
    /\ Has(given[idx], "weight")
    /\ given[idx]["weight"] = Num(2 * Scale)
    /\ dealt["volume_deals_price"] = Num(Dollars(7, 0))
    /\ dealt["unit_price"] = Num(Dollars(3, 50))


\* the base price the claim C17 gives: the current unit_price, else the
\* sale_price, else the regular_price, else 0
ClaimedCouponBase(item) ==
    IF Has(item, "unit_price") THEN item["unit_price"]
    ELSE IF Has(item, "sale_price") THEN item["sale_price"]
    ELSE Get(item, "regular_price", Num(0))

\* the two fields the claim C17 gives for base price b and terms t
BuyGetCouponExpected(item, b, t) ==
    /\ item["unit_price"] = Num(RoundRatio(BuyGetTotal100(b, t), 100 * (t.N + t.M)))
    /\ item["digital_coupon_price"] = Num(BuyGetTotal100(b, t) \div 100)

\* C17: Buy N Get M in coupon mode computes from the base price b, which is the
\* unit_price the record holds when the coupon pass starts, whatever its
\* value, else sale_price, else regular_price, else 0: unit_price =
\* round(r / (N + M), 2) and digital_coupon_price = r, for r = b*N or
\* b*N + b*(1 - X/100)*M.
C17_BuyGetCouponBase ==
    (/\ pc = "Done"
     /\ calls.coupon # <<>>
     /\ calls.coupon[1][1] = "BuyGetFreeProcessor"
     /\ IsNum(ClaimedCouponBase(dealt))) =>
        BuyGetCouponExpected(Returning, ClaimedCouponBase(dealt).v, BuyGetTerms(CouponText))

\* C18: price-per-lb in coupon mode, for every record with a numeric or absent
\* weight, one whose deal pass matched nothing included: the coupon pass
\* returns with unit_price = round(priorUnitPrice - X * weight, 2) and
\* digital_coupon_price = X.
C18_PerLbCoupon ==
    (/\ pc \in {"Done", "Raised"}
     /\ Len(passes) = 2
     /\ calls.coupon # <<>>
     /\ calls.coupon[1][1] = "PricePerLbProcessor"
     /\ IsNum(WeightOf(given[idx]))) =>
        /\ pc = "Done"
        /\ Returning["unit_price"] =
               Num(RoundRatio(dealt["unit_price"].v * Scale
                                  - PerLbAmount(CouponText) * WeightOf(given[idx]).v, Scale))
        /\ Returning["digital_coupon_price"] = Num(PerLbAmount(CouponText))

\* C19: Dollar-off in coupon mode, on a record whose price field is a number
\* or absent (0): unit_price = round(price - X, 2) from the raw price field and
\* digital_coupon_price = round(X, 2), whatever unit_price the deal pass left.
C19_DollarCoupon ==
    (/\ pc \in {"Done", "Raised"}
     /\ Len(passes) = 2
     /\ calls.coupon # <<>>
     /\ calls.coupon[1][1] = "DollarDiscountProcessor"
     /\ IsNum(RawPrice(given[idx]))) =>
        /\ pc = "Done"
        /\ Returning["unit_price"] =
               Num(Round2(RawPrice(given[idx]).v - DollarAmount(CouponText)))
        /\ Returning["digital_coupon_price"] = Num(Round2(DollarAmount(CouponText)))

\* a "$2 off" coupon after a deal that had left a unit_price other than the
\* raw price: the deal's unit_price is gone
C19_Witness ==
    /\ pc = "Done"
    /\ calls.deal # <<>>
    /\ calls.coupon # <<>>
    /\ calls.coupon[1][1] = "DollarDiscountProcessor"
    /\ CouponText = T_DollarOff
    /\ RawPrice(given[idx]) = Num(Dollars(5, 0))
    /\ dealt["unit_price"] \notin {Num(Dollars(5, 0)), Num(Dollars(3, 0))}
    /\ Returning["unit_price"] = Num(Dollars(3, 0))
    /\ Returning["digital_coupon_price"] = Num(Dollars(2, 0))


FourStrategies ==
    {"BuyGetFreeProcessor", "DollarDiscountProcessor", "PricePerLbProcessor", "SavingsProcessor"}

\* cat holds the four strategies, each once
FullCatalog(cat) ==
    /\ Len(cat) = 4
    /\ {cat[i] : i \in 1..Len(cat)} = FourStrategies

\* C20: in the process main.py starts, whose catalog is what its imports
\* registered, PromoProcessor.subclasses holds the four strategies, each once,
\* when process_item is called with the list of records.
C20_CatalogWiredAtMain ==
    (/\ pc = "NotStarted"
     /\ entry = "list"
     /\ subclasses = Registered(MainImports)) => FullCatalog(subclasses)


\* C21: process_item on a list is all-or-nothing: while the list is being
\* processed and when processing or tagging a record raises, results is as it
\* was before the call; when the call returns, results is what it was followed
\* by one record per record of the list; entries of earlier calls stay as
\* they were.
C21_ListAllOrNothing ==
    entry = "list" =>
        /\ pc # "Returned" => results = before
        /\ pc = "Returned" =>
               /\ Len(results) = Len(before) + Len(given)
               /\ SubSeq(results, 1, Len(before)) = before

\* the second record of a list raised after the first had been processed and
\* tagged, and results has none of the two
C21_Witness ==
    /\ pc = "Raised"
    /\ entry = "list"
    /\ Len(given) = 2
    /\ idx = 2
    /\ results = before

=============================================================================
